---- MODULE Spec2Model ----
(***************************************************************************)
(* A model of trace-debugger: Span, Trace, TraceStorage and Tracer.        *)
(*                                                                         *)
(* Objects live in `heap` (the Trace objects, in order of construction)    *)
(* and, inside each Trace, in `spans` (the Span objects that Trace has     *)
(* constructed).  A reference to an object is its position there, so that  *)
(* allSpans, children, rootSpan, currentSpan and the values of the two     *)
(* Maps are references, as they are in the program.  An optional field     *)
(* (endTime?, duration?, error?, parentId?) is <<>> when undefined and     *)
(* <<v>> when it holds v.  Date.now() is the variable `now`, an integer    *)
(* that never decreases; the reads of one handler see the same instant.    *)
(* Ids built from Math.random() are modelled as fresh values.              *)
(***************************************************************************)
EXTENDS Integers, Sequences, FiniteSets, TLC

\* ---------------------------------------------------------------- bounds
MaxTime     == 1    \* the clock runs over 0..MaxTime
MaxTraces   == 2    \* traces a Tracer starts in one behaviour
MaxSpans    == 2    \* spans started in one Trace, the root not counted
MaxCalls    == 5    \* startSpan/endSpan calls on the single Trace of SpecTrace
MaxTracerCalls == 2 \* startSpan/endSpan calls, over all traces, under Spec
MaxCapacity == 2    \* TraceStorage.maxTraces is drawn from 1..MaxCapacity
MaxObjects  == 3    \* Trace objects constructed under SpecStorage

Names      == {"op"}
Errors     == {"E1"}
Thresholds == (0 - 1) .. MaxTime

\* ------------------------------------------------------ optional values
Undefined == <<>>
Some(v)   == <<v>>
\* JavaScript's truthiness of an optional Error or string: undefined is falsy,
\* an Error object or a non-empty id string is truthy.
Truthy(opt) == opt # Undefined
\* (x || 0) for an optional number.
OrZero(opt) == IF opt = Undefined THEN 0 ELSE opt[1]

OptErrors == {Undefined} \cup {Some(e) : e \in Errors}

VARIABLES
    now,           \* Date.now()
    heap,          \* the Trace objects constructed so far
    activeTraces,  \* Tracer.activeTraces: Map<string, Trace>
    storage,       \* TraceStorage.traces: Map<string, Trace>
    maxTraces,     \* TraceStorage.maxTraces
    outcome,       \* the last call of a Tracer or TraceStorage method: its name, what it
                   \* returned or threw, and for finishTrace and store its arguments
    hist,          \* per Trace object, its startSpan ("s") and endSpan ("e") calls in order
    order          \* the stored keys, the one inserted longest ago first

vars == <<now, heap, activeTraces, storage, maxTraces, outcome, hist, order>>

\* ------------------------------------------------------------ JS Map
\* A Map is the sequence of its entries in insertion order.
MapKeys(m)   == [i \in 1..Len(m) |-> m[i].key]
MapValues(m) == [i \in 1..Len(m) |-> m[i].value]
MapHas(m, k) == \E i \in 1..Len(m) : m[i].key = k
MapGet(m, k) ==
    IF MapHas(m, k)
    THEN Some(m[CHOOSE i \in 1..Len(m) : m[i].key = k].value)
    ELSE Undefined
\* set() of a key already present replaces the value and keeps the position.
MapSet(m, k, v) ==
    IF MapHas(m, k)
    THEN [i \in 1..Len(m) |-> IF m[i].key = k THEN [key |-> k, value |-> v] ELSE m[i]]
    ELSE Append(m, [key |-> k, value |-> v])
MapDelete(m, k) == SelectSeq(m, LAMBDA e : e.key # k)

\* ------------------------------------------------------------- Span
SpanId(ref, n) == <<"span", ref, n>>

\* A Span constructed with the duration preset to 0.
Span_new_ZeroDuration(id, traceId, name, parentId, t) ==
    [ id        |-> id,
      traceId   |-> traceId,
      name      |-> name,
      parentId  |-> parentId,
      startTime |-> t,
      endTime   |-> Undefined,
      duration  |-> Some(0),
      status    |-> "started",
      error     |-> Undefined,
      children  |-> <<>> ]

Span_new(id, traceId, name, parentId, t) ==
    [ id        |-> id,
      traceId   |-> traceId,
      name      |-> name,
      parentId  |-> parentId,
      startTime |-> t,
      endTime   |-> Undefined,
      duration  |-> Undefined,
      status    |-> "started",
      error     |-> Undefined,
      children  |-> <<>> ]

Span_addChild(span, child) == [span EXCEPT !.children = Append(@, child)]

\* Span.end that leaves a span alone once it has ended.
Span_end_OnlyOnce(span, error, t) ==
    IF span.status # "started" THEN span
    ELSE [span EXCEPT !.endTime  = Some(t),
                      !.duration = Some(t - span.startTime),
                      !.status   = IF Truthy(error) THEN "error" ELSE "completed",
                      !.error    = error]

\* Span.end with the start time not subtracted.
Span_end_DurationIsEndTime(span, error, t) ==
    [span EXCEPT !.endTime  = Some(t),
                 !.duration = Some(t),
                 !.status   = IF Truthy(error) THEN "error" ELSE "completed",
                 !.error    = error]

Span_end(span, error, t) ==
    [span EXCEPT !.endTime  = Some(t),
                 !.duration = Some(t - span.startTime),
                 !.status   = IF Truthy(error) THEN "error" ELSE "completed",
                 !.error    = error]

\* ------------------------------------------------------------ Trace
\* `ref` is the heap position of the Trace under construction; it only feeds
\* the fresh span ids.
Trace_new(traceId, rootSpanName, ref, t) ==
    [ traceId     |-> traceId,
      startTime   |-> t,
      endTime     |-> Undefined,
      duration    |-> Undefined,
      status      |-> "running",
      spans       |-> << Span_new(SpanId(ref, 1), traceId, rootSpanName, Undefined, t) >>,
      rootSpan    |-> 1,
      currentSpan |-> 1,
      allSpans    |-> <<1>> ]

\* Trace.startSpan without the call of addChild.
Trace_startSpan_NoAddChild(tr, name, ref, t) ==
    LET new  == Len(tr.spans) + 1
        span == Span_new(SpanId(ref, new), tr.traceId, name,
                         Some(tr.spans[tr.currentSpan].id), t)
    IN  [tr EXCEPT !.spans       = Append(@, span),
                   !.allSpans    = Append(@, new),
                   !.currentSpan = new]

\* Trace.startSpan that puts the new span in front of the children.
Trace_startSpan_ChildFirst(tr, name, ref, t) ==
    LET new  == Len(tr.spans) + 1
        span == Span_new(SpanId(ref, new), tr.traceId, name,
                         Some(tr.spans[tr.currentSpan].id), t)
    IN  [tr EXCEPT !.spans       = Append([@ EXCEPT ![tr.currentSpan].children = <<new>> \o @], span),
                   !.allSpans    = Append(@, new),
                   !.currentSpan = new]

\* Trace.startSpan that calls addChild twice.
Trace_startSpan_AddsChildTwice(tr, name, ref, t) ==
    LET new  == Len(tr.spans) + 1
        span == Span_new(SpanId(ref, new), tr.traceId, name,
                         Some(tr.spans[tr.currentSpan].id), t)
    IN  [tr EXCEPT !.spans       = Append([@ EXCEPT ![tr.currentSpan] =
                                               Span_addChild(Span_addChild(@, new), new)], span),
                   !.allSpans    = Append(@, new),
                   !.currentSpan = new]

\* Trace.startSpan that leaves out the third argument of new Span.
Trace_startSpan_NoParentId(tr, name, ref, t) ==
    LET new  == Len(tr.spans) + 1
        span == Span_new(SpanId(ref, new), tr.traceId, name, Undefined, t)
    IN  [tr EXCEPT !.spans       = Append([@ EXCEPT ![tr.currentSpan] = Span_addChild(@, new)], span),
                   !.allSpans    = Append(@, new),
                   !.currentSpan = new]

Trace_startSpan(tr, name, ref, t) ==
    LET new  == Len(tr.spans) + 1
        span == Span_new(SpanId(ref, new), tr.traceId, name,
                         Some(tr.spans[tr.currentSpan].id), t)
    IN  [tr EXCEPT !.spans       = Append([@ EXCEPT ![tr.currentSpan] = Span_addChild(@, new)], span),
                   !.allSpans    = Append(@, new),
                   !.currentSpan = new]

\* allSpans.find((s) => s.id === id): the first match, or undefined.
FindSpan(tr, id) ==
    LET hits == {i \in 1..Len(tr.allSpans) : tr.spans[tr.allSpans[i]].id = id}
    IN  IF hits = {} THEN Undefined
        ELSE Some(tr.allSpans[CHOOSE i \in hits : \A j \in hits : i <= j])

\* Trace.endSpan that goes back to the root span, whatever the parent is.
Trace_endSpan_ToRoot(tr, error, t) ==
    [tr EXCEPT !.spans[tr.currentSpan] = Span_end(@, error, t),
               !.currentSpan = tr.rootSpan]

\* Trace.endSpan that goes to the parent first and ends the span it finds there.
Trace_endSpan_MovesFirst(tr, error, t) ==
    LET pid    == tr.spans[tr.currentSpan].parentId
        parent == IF Truthy(pid) THEN FindSpan(tr, pid[1]) ELSE Undefined
        target == IF parent # Undefined THEN parent[1] ELSE tr.currentSpan
    IN  [tr EXCEPT !.spans[target] = Span_end(@, error, t),
                   !.currentSpan = target]

\* Trace.endSpan that ends the span and forgets to go back to the parent.
Trace_endSpan_StaysPut(tr, error, t) ==
    [tr EXCEPT !.spans[tr.currentSpan] = Span_end(@, error, t)]

Trace_endSpan(tr, error, t) ==
    LET cur    == tr.currentSpan
        ended  == [tr EXCEPT !.spans[cur] = Span_end(@, error, t)]
        pid    == tr.spans[cur].parentId
        parent == IF Truthy(pid) THEN FindSpan(ended, pid[1]) ELSE Undefined
    IN  IF Truthy(pid) /\ parent # Undefined
        THEN [ended EXCEPT !.currentSpan = parent[1]]
        ELSE ended

\* Trace.finish that ends the root span as well.
Trace_finish_EndsRoot(tr, error, t) ==
    [tr EXCEPT !.endTime  = Some(t),
               !.duration = Some(t - tr.startTime),
               !.status   = IF Truthy(error) THEN "failed" ELSE "completed",
               !.spans[tr.rootSpan] = Span_end(@, error, t)]

\* Trace.finish with the two statuses swapped.
Trace_finish_Swapped(tr, error, t) ==
    [tr EXCEPT !.endTime  = Some(t),
               !.duration = Some(t - tr.startTime),
               !.status   = IF Truthy(error) THEN "completed" ELSE "failed"]

Trace_finish(tr, error, t) ==
    [tr EXCEPT !.endTime  = Some(t),
               !.duration = Some(t - tr.startTime),
               !.status   = IF Truthy(error) THEN "failed" ELSE "completed"]

\* Trace.getSlowOperations(thresholdMs): allSpans.filter, so in allSpans order.
Trace_getSlowOperations(tr, thresholdMs) ==
    SelectSeq(tr.allSpans, LAMBDA s : OrZero(tr.spans[s].duration) > thresholdMs)

\* formatSpan(span, level) of Trace.visualize: the line of the span and then,
\* by children.forEach, the lines of its children one level deeper.  A line
\* `${'  '.repeat(level)}├─ ${span.name} (${span.duration}ms)` is kept as its
\* level, name and duration.
RECURSIVE FormatSpan(_, _, _), FormatChildren(_, _, _, _)
FormatSpan(tr, s, level) ==
    << [ level |-> level, name |-> tr.spans[s].name, duration |-> tr.spans[s].duration ] >>
        \o FormatChildren(tr, tr.spans[s].children, 1, level + 1)
FormatChildren(tr, children, i, level) ==
    IF i > Len(children) THEN <<>>
    ELSE FormatSpan(tr, children[i], level) \o FormatChildren(tr, children, i + 1, level)

\* Trace.visualize(): the lines of the output, in order.
Trace_visualize(tr) == FormatSpan(tr, tr.rootSpan, 0)

\* ------------------------------------------------- MetricsCollector
\* The forEach of analyzeTrace with >= for >: the last of the slowest wins.
RECURSIVE SlowestFrom_LastWins(_, _, _)
SlowestFrom_LastWins(tr, i, best) ==
    IF i > Len(tr.allSpans) THEN best
    ELSE SlowestFrom_LastWins(tr, i + 1,
                     IF OrZero(tr.spans[tr.allSpans[i]].duration) >= OrZero(tr.spans[best].duration)
                     THEN tr.allSpans[i] ELSE best)

\* The forEach of analyzeTrace from position i on, `slowestSpan` being `best`.
RECURSIVE SlowestFrom(_, _, _)
SlowestFrom(tr, i, best) ==
    IF i > Len(tr.allSpans) THEN best
    ELSE SlowestFrom(tr, i + 1,
                     IF OrZero(tr.spans[tr.allSpans[i]].duration) > OrZero(tr.spans[best].duration)
                     THEN tr.allSpans[i] ELSE best)

\* allSpans.reduce((sum, span) => sum + (span.duration || 0), 0), from position i on.
RECURSIVE TotalTimeFrom(_, _, _)
TotalTimeFrom(tr, i, sum) ==
    IF i > Len(tr.allSpans) THEN sum
    ELSE TotalTimeFrom(tr, i + 1, sum + OrZero(tr.spans[tr.allSpans[i]].duration))

\* MetricsCollector.analyzeTrace(trace).  averageOperationTime is the quotient
\* totalTime / allSpans.length, kept as its two terms; databaseQueries and
\* memoryUsed read span names, attributes and the process, and are left out.
MetricsCollector_analyzeTrace(tr) ==
    LET slowestSpan == SlowestFrom(tr, 1, tr.allSpans[1])
        totalTime   == TotalTimeFrom(tr, 1, 0)
    IN  [ totalDuration        |-> OrZero(tr.duration),
          slowestOperation     |-> [ name     |-> tr.spans[slowestSpan].name,
                                     duration |-> OrZero(tr.spans[slowestSpan].duration) ],
          slowestSpan          |-> slowestSpan,
          operationCount       |-> Len(tr.allSpans),
          averageOperationTime |-> [ num |-> totalTime, den |-> Len(tr.allSpans) ] ]

\* ----------------------------------------------------- TraceStorage
\* TraceStorage.store that deletes the key before it sets it.
TraceStorage_store_MovesToEnd(m, traceId, ref, max) ==
    LET set == MapSet(MapDelete(m, traceId), traceId, ref)
    IN  IF Len(set) > max THEN MapDelete(set, set[1].key) ELSE set

\* TraceStorage.store that evicts the entry inserted last.
TraceStorage_store_EvictsNewest(m, traceId, ref, max) ==
    LET set == MapSet(m, traceId, ref)
    IN  IF Len(set) > max THEN MapDelete(set, set[Len(set)].key) ELSE set

TraceStorage_store(m, traceId, ref, max) ==
    LET set == MapSet(m, traceId, ref)
    IN  IF Len(set) > max THEN MapDelete(set, set[1].key) ELSE set

TraceStorage_get(m, traceId) == MapGet(m, traceId)

TraceStorage_getAll(m) == MapValues(m)

TraceStorage_clear(m) == <<>>

TraceStorage_getSlowTraces(m, thresholdMs) ==
    SelectSeq(MapValues(m), LAMBDA r : OrZero(heap[r].duration) > thresholdMs)

\* Math.max(...xs) and Math.min(...xs): -Infinity and Infinity for no argument.
MathMax(xs) ==
    IF xs = <<>> THEN "-Infinity"
    ELSE CHOOSE x \in {xs[i] : i \in 1..Len(xs)} : \A i \in 1..Len(xs) : xs[i] <= x
MathMin(xs) ==
    IF xs = <<>> THEN "Infinity"
    ELSE CHOOSE x \in {xs[i] : i \in 1..Len(xs)} : \A i \in 1..Len(xs) : x <= xs[i]

\* durations.reduce((a, b) => a + b, 0)
RECURSIVE SumOf(_)
SumOf(xs) == IF xs = <<>> THEN 0 ELSE Head(xs) + SumOf(Tail(xs))

\* (sum / n).toFixed(2) for sum >= 0: the quotient rounded to hundredths, given
\* as the number of hundredths; 0 / 0 is NaN and prints as "NaN".
ToFixed2(sum, n) == IF n = 0 THEN "NaN" ELSE (200 * sum + n) \div (2 * n)

\* TraceStorage.getStats with Math.max and Math.min taken for each other.
TraceStorage_getStats_MinMaxSwapped(m) ==
    LET allTraces == MapValues(m)
        durations == [i \in 1..Len(allTraces) |-> OrZero(heap[allTraces[i]].duration)]
    IN  [ totalTraces     |-> Len(allTraces),
          averageDuration |-> ToFixed2(SumOf(durations), Len(durations)),
          slowestTrace    |-> MathMin(durations),
          fastestTrace    |-> MathMax(durations) ]

TraceStorage_getStats(m) ==
    LET allTraces == MapValues(m)
        durations == [i \in 1..Len(allTraces) |-> OrZero(heap[allTraces[i]].duration)]
    IN  [ totalTraces     |-> Len(allTraces),
          averageDuration |-> ToFixed2(SumOf(durations), Len(durations)),
          slowestTrace    |-> MathMax(durations),
          fastestTrace    |-> MathMin(durations) ]

\* ----------------------------------------------------------- Tracer
Tracer_getTrace(traceId) == TraceStorage_get(storage, traceId)

Tracer_getSlowTraces(threshold) == TraceStorage_getSlowTraces(storage, threshold)

Tracer_getStats == TraceStorage_getStats(storage)

\* Array.from(this.activeTraces.values())[0]
FirstActive == IF Len(activeTraces) = 0 THEN Undefined ELSE Some(activeTraces[1].value)

\* The ids a caller may pass: those of the traces constructed so far and one
\* that no trace has.
UnknownId == Len(heap) + 1
TraceIds  == {heap[r].traceId : r \in 1..Len(heap)} \cup {UnknownId}

Returned(op, args, value) == [op |-> op, args |-> args, threw |-> "none", value |-> value]
Threw(op, args, message)  == [op |-> op, args |-> args, threw |-> message, value |-> Undefined]

\* How many startSpan calls a Trace has taken so far.
Started(r) == Len(heap[r].spans) - 1

\* ---------------------------------------------------------- actions
Init ==
    /\ now = 0
    /\ heap = <<>>
    /\ activeTraces = <<>>
    /\ storage = <<>>
    /\ maxTraces \in 1..MaxCapacity
    /\ outcome = Returned("new Tracer", <<>>, Undefined)
    /\ hist = <<>>
    /\ order = <<>>

Tick ==
    /\ now < MaxTime
    /\ now' = now + 1
    /\ UNCHANGED <<heap, activeTraces, storage, maxTraces, outcome, hist, order>>

\* Tracer.startTrace(name)
StartTrace(name) ==
    LET ref     == Len(heap) + 1
        traceId == ref
    IN  /\ heap' = Append(heap, Trace_new(traceId, name, ref, now))
        /\ hist' = Append(hist, <<>>)
        /\ activeTraces' = MapSet(activeTraces, traceId, ref)
        /\ outcome' = Returned("startTrace", <<>>, Some(ref))
        /\ UNCHANGED <<now, storage, maxTraces, order>>

\* Tracer.startSpan that falls back to the first open trace when the traceId
\* it is given is not open.
StartSpan_FallsBack(name, traceId) ==
    LET given == IF Truthy(traceId) THEN MapGet(activeTraces, traceId[1]) ELSE Undefined
        trace == IF given # Undefined THEN given ELSE FirstActive
    IN  IF trace = Undefined
        THEN /\ outcome' = Threw("startSpan", <<>>, "No active trace")
             /\ UNCHANGED <<now, heap, activeTraces, storage, maxTraces, hist, order>>
        ELSE LET r == trace[1] IN
             /\ Started(r) < MaxSpans
             /\ heap' = [heap EXCEPT ![r] = Trace_startSpan(@, name, r, now)]
             /\ hist' = [hist EXCEPT ![r] = Append(@, "s")]
             /\ outcome' = Returned("startSpan", <<>>, Some(heap'[r].currentSpan))
             /\ UNCHANGED <<now, activeTraces, storage, maxTraces, order>>

\* Tracer.startSpan(name, traceId?)
StartSpan(name, traceId) ==
    LET trace == IF Truthy(traceId) THEN MapGet(activeTraces, traceId[1]) ELSE FirstActive
    IN  IF trace = Undefined
        THEN /\ outcome' = Threw("startSpan", <<>>, "No active trace")
             /\ UNCHANGED <<now, heap, activeTraces, storage, maxTraces, hist, order>>
        ELSE LET r == trace[1] IN
             /\ Started(r) < MaxSpans
             /\ heap' = [heap EXCEPT ![r] = Trace_startSpan(@, name, r, now)]
             /\ hist' = [hist EXCEPT ![r] = Append(@, "s")]
             /\ outcome' = Returned("startSpan", <<>>, Some(heap'[r].currentSpan))
             /\ UNCHANGED <<now, activeTraces, storage, maxTraces, order>>

\* Tracer.endSpan that takes the open trace opened last.
EndSpan_LastActive(error) ==
    LET trace == IF Len(activeTraces) = 0 THEN Undefined
                 ELSE Some(activeTraces[Len(activeTraces)].value)
    IN  IF trace = Undefined
        THEN /\ outcome' = Threw("endSpan", <<>>, "No active trace")
             /\ UNCHANGED <<now, heap, activeTraces, storage, maxTraces, hist, order>>
        ELSE LET r == trace[1] IN
             /\ heap' = [heap EXCEPT ![r] = Trace_endSpan(@, error, now)]
             /\ hist' = [hist EXCEPT ![r] = Append(@, "e")]
             /\ outcome' = Returned("endSpan", <<>>, Undefined)
             /\ UNCHANGED <<now, activeTraces, storage, maxTraces, order>>

\* Tracer.endSpan(error?)
EndSpan(error) ==
    LET trace == FirstActive
    IN  IF trace = Undefined
        THEN /\ outcome' = Threw("endSpan", <<>>, "No active trace")
             /\ UNCHANGED <<now, heap, activeTraces, storage, maxTraces, hist, order>>
        ELSE LET r == trace[1] IN
             /\ heap' = [heap EXCEPT ![r] = Trace_endSpan(@, error, now)]
             /\ hist' = [hist EXCEPT ![r] = Append(@, "e")]
             /\ outcome' = Returned("endSpan", <<>>, Undefined)
             /\ UNCHANGED <<now, activeTraces, storage, maxTraces, order>>

\* The record of a store call: a key that was not present goes last, a key
\* that was present keeps its place, and the keys no longer stored are dropped.
Inserted(after, key) ==
    LET had == \E i \in 1..Len(order) : order[i] = key
        all == IF had THEN order ELSE Append(order, key)
    IN  SelectSeq(all, LAMBDA k : MapHas(after, k))

\* Tracer.finishTrace that looks in the store for an id that is not open.
FinishTrace_Refinishes(traceId, error) ==
    LET open  == MapGet(activeTraces, traceId)
        trace == IF open # Undefined THEN open ELSE TraceStorage_get(storage, traceId)
    IN  IF trace = Undefined
        THEN /\ outcome' = Threw("finishTrace", <<traceId, error>>, "Trace not found")
             /\ UNCHANGED <<now, heap, activeTraces, storage, maxTraces, hist, order>>
        ELSE LET r == trace[1] IN
             /\ heap' = [heap EXCEPT ![r] = Trace_finish(@, error, now)]
             /\ storage' = TraceStorage_store(storage, heap[r].traceId, r, maxTraces)
             /\ order' = Inserted(storage', heap[r].traceId)
             /\ activeTraces' = MapDelete(activeTraces, traceId)
             /\ outcome' = Returned("finishTrace", <<traceId, error>>, Some(r))
             /\ UNCHANGED <<now, maxTraces, hist>>

\* Tracer.finishTrace that returns undefined for an id that is not open.
FinishTrace_Silent(traceId, error) ==
    LET trace == MapGet(activeTraces, traceId)
    IN  IF trace = Undefined
        THEN /\ outcome' = Returned("finishTrace", <<traceId, error>>, Undefined)
             /\ UNCHANGED <<now, heap, activeTraces, storage, maxTraces, hist, order>>
        ELSE LET r == trace[1] IN
             /\ heap' = [heap EXCEPT ![r] = Trace_finish(@, error, now)]
             /\ storage' = TraceStorage_store(storage, heap[r].traceId, r, maxTraces)
             /\ order' = Inserted(storage', heap[r].traceId)
             /\ activeTraces' = MapDelete(activeTraces, traceId)
             /\ outcome' = Returned("finishTrace", <<traceId, error>>, Some(r))
             /\ UNCHANGED <<now, maxTraces, hist>>

\* Tracer.finishTrace that leaves the trace among the open ones.
FinishTrace_NoDelete(traceId, error) ==
    LET trace == MapGet(activeTraces, traceId)
    IN  IF trace = Undefined
        THEN /\ outcome' = Threw("finishTrace", <<traceId, error>>, "Trace not found")
             /\ UNCHANGED <<now, heap, activeTraces, storage, maxTraces, hist, order>>
        ELSE LET r == trace[1] IN
             /\ heap' = [heap EXCEPT ![r] = Trace_finish(@, error, now)]
             /\ storage' = TraceStorage_store(storage, heap[r].traceId, r, maxTraces)
             /\ order' = Inserted(storage', heap[r].traceId)
             /\ outcome' = Returned("finishTrace", <<traceId, error>>, Some(r))
             /\ UNCHANGED <<now, activeTraces, maxTraces, hist>>

\* Tracer.finishTrace(traceId, error?)
FinishTrace(traceId, error) ==
    LET trace == MapGet(activeTraces, traceId)
    IN  IF trace = Undefined
        THEN /\ outcome' = Threw("finishTrace", <<traceId, error>>, "Trace not found")
             /\ UNCHANGED <<now, heap, activeTraces, storage, maxTraces, hist, order>>
        ELSE LET r == trace[1] IN
             /\ heap' = [heap EXCEPT ![r] = Trace_finish(@, error, now)]
             /\ storage' = TraceStorage_store(storage, heap[r].traceId, r, maxTraces)
             /\ order' = Inserted(storage', heap[r].traceId)
             /\ activeTraces' = MapDelete(activeTraces, traceId)
             /\ outcome' = Returned("finishTrace", <<traceId, error>>, Some(r))
             /\ UNCHANGED <<now, maxTraces, hist>>

\* Tracer.finishTrace(traceId, error?) as a function of the Tracer's state
\* st = [heap, activeTraces, storage]: the state it leaves, what it threw and
\* what it returned.
Tracer_finishTrace(st, traceId, error) ==
    LET trace == MapGet(st.activeTraces, traceId)
    IN  IF trace = Undefined
        THEN [ heap |-> st.heap, activeTraces |-> st.activeTraces, storage |-> st.storage,
               threw |-> "Trace not found", value |-> Undefined ]
        ELSE LET r == trace[1] IN
             [ heap         |-> [st.heap EXCEPT ![r] = Trace_finish(@, error, now)],
               activeTraces |-> MapDelete(st.activeTraces, traceId),
               storage      |-> TraceStorage_store(st.storage, st.heap[r].traceId, r, maxTraces),
               threw        |-> "none",
               value        |-> Some(r) ]

\* What a wrapped function resolves with.
Values == {"v"}

\* The `span` of an invocation of the wrapper: what trace.startSpan('execution')
\* returned, the first child of the root span.
ExecutionSpan(tr) == tr.spans[tr.rootSpan].children[1]

\* A call of the function instrument(name, fn) returned, up to its await:
\* startTrace(name), trace.startSpan('execution'), fn(...args) returns a promise
\* that is still pending.
InstrumentCall(name) ==
    LET ref     == Len(heap) + 1
        traceId == ref
        trace   == Trace_startSpan(Trace_new(traceId, name, ref, now), "execution", ref, now)
    IN  /\ heap' = Append(heap, trace)
        /\ hist' = Append(hist, <<"s">>)
        /\ activeTraces' = MapSet(activeTraces, traceId, ref)
        /\ outcome' = Returned("instrumented call", <<traceId>>, Undefined)
        /\ UNCHANGED <<now, storage, maxTraces, order>>

\* The same call when fn(...args) throws before it returns a promise: the
\* catch block runs at once and the promise of the wrapper is rejected.
InstrumentCallThrows(name, e) ==
    LET ref     == Len(heap) + 1
        traceId == ref
        trace   == Trace_startSpan(Trace_new(traceId, name, ref, now), "execution", ref, now)
        caught  == Tracer_finishTrace([ heap         |-> Append(heap, trace),
                                        activeTraces |-> MapSet(activeTraces, traceId, ref),
                                        storage      |-> storage ], traceId, Some(e))
    IN  /\ heap' = caught.heap
        /\ hist' = Append(hist, <<"s">>)
        /\ activeTraces' = caught.activeTraces
        /\ storage' = caught.storage
        /\ order' = Inserted(storage', traceId)
        /\ outcome' = IF caught.threw = "none"
                      THEN Threw("instrumented", <<traceId>>, e)
                      ELSE Threw("instrumented", <<traceId>>, caught.threw)
        /\ UNCHANGED <<now, maxTraces>>

\* The wrapper of invocation r after its await.  With no error the promise of
\* fn has resolved: span.end(), finishTrace(trace.traceId), and the wrapper
\* settles as `settled`; an error thrown on the way is caught like a rejection.
\* With an error the promise has rejected: finishTrace(trace.traceId, error),
\* and the wrapper settles as `settled`, or with what that finishTrace threw.
InstrumentAfterAwait(r, error, settled) ==
    LET traceId == heap[r].traceId
        before  == [ heap |-> heap, activeTraces |-> activeTraces, storage |-> storage ]
        ended   == [ before EXCEPT !.heap[r].spans[ExecutionSpan(heap[r])] =
                                       Span_end(@, Undefined, now) ]
        tried   == Tracer_finishTrace(ended, traceId, Undefined)
        thrown  == IF error # Undefined THEN error[1] ELSE tried.threw
        from    == IF error # Undefined THEN before ELSE tried
        caught  == Tracer_finishTrace(from, traceId, Some(thrown))
        ok      == error = Undefined /\ tried.threw = "none"
        final   == IF ok THEN tried ELSE caught
    IN  /\ heap' = final.heap
        /\ activeTraces' = final.activeTraces
        /\ storage' = final.storage
        /\ order' = Inserted(storage', traceId)
        /\ outcome' = IF ok THEN settled
                      ELSE IF caught.threw # "none" THEN Threw("instrumented", <<traceId>>, caught.threw)
                      ELSE IF error # Undefined THEN settled
                      ELSE Threw("instrumented", <<traceId>>, thrown)
        /\ UNCHANGED <<now, maxTraces, hist>>

\* The promise of fn resolves with v.
InstrumentResolve(r, v) ==
    InstrumentAfterAwait(r, Undefined, Returned("instrumented", <<heap[r].traceId>>, Some(v)))

\* A wrapper that records the error and resolves instead of throwing it again.
InstrumentReject_Swallowed(r, e) ==
    InstrumentAfterAwait(r, Some(e), Returned("instrumented", <<heap[r].traceId>>, Undefined))

\* The promise of fn rejects with e.
InstrumentReject(r, e) ==
    InstrumentAfterAwait(r, Some(e), Threw("instrumented", <<heap[r].traceId>>, e))

\* trace.startSpan(name), on the Trace object a caller holds
CallTraceStartSpan(r, name) ==
    /\ Started(r) < MaxSpans
    /\ heap' = [heap EXCEPT ![r] = Trace_startSpan(@, name, r, now)]
    /\ hist' = [hist EXCEPT ![r] = Append(@, "s")]
    /\ UNCHANGED <<now, outcome, activeTraces, storage, maxTraces, order>>

\* trace.endSpan(error?)
CallTraceEndSpan(r, error) ==
    /\ heap' = [heap EXCEPT ![r] = Trace_endSpan(@, error, now)]
    /\ hist' = [hist EXCEPT ![r] = Append(@, "e")]
    /\ UNCHANGED <<now, outcome, activeTraces, storage, maxTraces, order>>

\* trace.finish(error?)
CallTraceFinish(r, error) ==
    /\ heap' = [heap EXCEPT ![r] = Trace_finish(@, error, now)]
    /\ UNCHANGED <<now, outcome, activeTraces, storage, maxTraces, hist, order>>

\* span.end(error?), on a Span object a caller holds (startSpan returned it)
CallSpanEnd(r, s, error) ==
    /\ heap' = [heap EXCEPT ![r].spans[s] = Span_end(@, error, now)]
    /\ UNCHANGED <<now, outcome, activeTraces, storage, maxTraces, hist, order>>

Refs == 1..Len(heap)
\* The Trace objects of the traces still open in the Tracer.
OpenRefs == {activeTraces[i].value : i \in 1..Len(activeTraces)}

\* trace.startSpan(name), with no limit on the spans of the trace
CallTraceStartSpanAny(r, name) ==
    /\ heap' = [heap EXCEPT ![r] = Trace_startSpan(@, name, r, now)]
    /\ hist' = [hist EXCEPT ![r] = Append(@, "s")]
    /\ UNCHANGED <<now, outcome, activeTraces, storage, maxTraces, order>>

\* A clock the caller controls: Date.now() is set to a later instant.
SetClock(t) ==
    /\ t > now
    /\ now' = t
    /\ UNCHANGED <<heap, activeTraces, storage, maxTraces, outcome, hist, order>>

\* new Trace(traceId, rootSpanName), by a caller that uses Trace without a Tracer
NewTrace(traceId, name) ==
    LET ref == Len(heap) + 1
    IN  /\ heap' = Append(heap, Trace_new(traceId, name, ref, now))
        /\ hist' = Append(hist, <<>>)
            /\ UNCHANGED <<now, outcome, activeTraces, storage, maxTraces, order>>

RECURSIVE SumLen(_)
SumLen(q) == IF q = <<>> THEN 0 ELSE Len(Head(q)) + SumLen(Tail(q))
\* The startSpan and endSpan calls made so far, over all traces.
SpanCalls == SumLen(hist)

\* TraceStorage.store(trace), on a TraceStorage a caller uses without a Tracer
Store(r) ==
    /\ storage' = TraceStorage_store(storage, heap[r].traceId, r, maxTraces)
    /\ order' = Inserted(storage', heap[r].traceId)
    /\ outcome' = Returned("store", <<heap[r].traceId>>, Undefined)
    /\ UNCHANGED <<now, heap, activeTraces, maxTraces, hist>>

\* TraceStorage.clear()
Clear ==
    /\ storage' = TraceStorage_clear(storage)
    /\ order' = <<>>
    /\ outcome' = Returned("clear", <<>>, Undefined)
    /\ UNCHANGED <<now, heap, activeTraces, maxTraces, hist>>

\* The Tracer, and startSpan and endSpan on the Trace objects it has handed
\* out and not yet finished, all within one tick of the clock.
Next ==
    \/ \E name \in Names : Len(heap) < MaxTraces /\ StartTrace(name)
    \/ \E name \in Names, id \in {Undefined} \cup {Some(i) : i \in TraceIds} :
           SpanCalls < MaxTracerCalls /\ StartSpan(name, id)
    \/ \E error \in OptErrors : SpanCalls < MaxTracerCalls /\ EndSpan(error)
    \/ \E id \in TraceIds, error \in OptErrors : FinishTrace(id, error)
    \/ \E r \in OpenRefs, name \in Names : SpanCalls < MaxTracerCalls /\ CallTraceStartSpan(r, name)
    \/ \E r \in OpenRefs, error \in OptErrors : SpanCalls < MaxTracerCalls /\ CallTraceEndSpan(r, error)

Spec == Init /\ [][Next]_vars

\* The Tracer's startTrace and finishTrace while the clock advances.
NextClock ==
    \/ Tick
    \/ \E name \in Names : Len(heap) < MaxTraces /\ StartTrace(name)
    \/ \E id \in TraceIds, error \in OptErrors : FinishTrace(id, error)

SpecClock == Init /\ [][NextClock]_vars

\* One Trace used on its own: startSpan, endSpan and finish.
InitTrace == Init /\ maxTraces = 1

NextTrace ==
    \/ Tick
    \/ \E name \in Names : heap = <<>> /\ NewTrace(1, name)
    \/ \E r \in Refs, name \in Names : SpanCalls < MaxCalls /\ CallTraceStartSpan(r, name)
    \/ \E r \in Refs, error \in OptErrors : SpanCalls < MaxCalls /\ CallTraceEndSpan(r, error)
    \/ \E r \in Refs, error \in OptErrors : CallTraceFinish(r, error)

SpecTrace == InitTrace /\ [][NextTrace]_vars

\* One Trace and the Span objects its startSpan returns: startSpan, endSpan
\* and end() on any of its spans.
NextSpan ==
    \/ Tick
    \/ \E name \in Names : heap = <<>> /\ NewTrace(1, name)
    \/ \E r \in Refs, name \in Names : SpanCalls < MaxCalls /\ CallTraceStartSpan(r, name)
    \/ \E r \in Refs, error \in OptErrors : SpanCalls < MaxCalls /\ CallTraceEndSpan(r, error)
    \/ \E r \in Refs, error \in OptErrors : \E s \in 1..Len(heap[r].spans) : CallSpanEnd(r, s, error)

SpecSpan == InitTrace /\ [][NextSpan]_vars

\* The ids a caller gives its Trace objects: one more than the largest
\* capacity, and, ids being interchangeable, a new one only after the ones
\* below it.
CallerIds ==
    {id \in 1..(MaxCapacity + 1) : \A k \in 1..(id - 1) : \E r \in Refs : heap[r].traceId = k}

\* One TraceStorage used on its own, with Trace objects the caller constructs
\* under ids of its choice and may or may not have finished.
NextStorage ==
    \/ \E id \in CallerIds, name \in Names : Len(heap) < MaxObjects /\ NewTrace(id, name)
    \/ \E r \in Refs, error \in OptErrors : CallTraceFinish(r, error)
    \/ \E r \in Refs : Store(r)
    \/ Clear

SpecStorage == Init /\ [][NextStorage]_vars

\* The checkout scenario: the calls a caller makes on the trace "checkout", in
\* order, while it moves the clock between them as it likes.
Checkout ==
    << [op |-> "startSpan", name |-> "validate"],
       [op |-> "endSpan",   name |-> ""],
       [op |-> "startSpan", name |-> "charge"],
       [op |-> "startSpan", name |-> "gateway-call"],
       [op |-> "endSpan",   name |-> ""],
       [op |-> "endSpan",   name |-> ""],
       [op |-> "finish",    name |-> ""] >>
ClockValues == {50, 100, 200, 250}

\* How far the caller of the scenario has come on trace r.
Position(r) == Len(hist[r]) + (IF heap[r].status = "running" THEN 0 ELSE 1)

\* The next call of the scenario.
CheckoutStep(r) ==
    /\ Position(r) < Len(Checkout)
    /\ LET call == Checkout[Position(r) + 1]
       IN  CASE call.op = "startSpan" -> CallTraceStartSpanAny(r, call.name)
             [] call.op = "endSpan"   -> CallTraceEndSpan(r, Undefined)
             [] call.op = "finish"    -> CallTraceFinish(r, Undefined)

NextCheckout ==
    \/ \E t \in ClockValues : SetClock(t)
    \/ heap = <<>> /\ NewTrace(1, "checkout")
    \/ \E r \in Refs : CheckoutStep(r)

SpecCheckout == InitTrace /\ [][NextCheckout]_vars

\* Concurrent invocations of one function wrapped by instrument: each is a
\* process that runs to its await in one step and, when the promise of fn
\* settles, runs to its end in another; the invocations waiting are those
\* whose trace is open.
NextInstrument ==
    \/ Tick
    \/ \E name \in Names : Len(heap) < MaxTraces /\ InstrumentCall(name)
    \/ \E name \in Names, e \in Errors : Len(heap) < MaxTraces /\ InstrumentCallThrows(name, e)
    \/ \E r \in OpenRefs, v \in Values : InstrumentResolve(r, v)
    \/ \E r \in OpenRefs, e \in Errors : InstrumentReject(r, e)

SpecInstrument == Init /\ [][NextInstrument]_vars

\* ------------------------------------------------------------ claims
\* The spans of a Trace, in allSpans order.
SpansOf(tr) == [i \in 1..Len(tr.allSpans) |-> tr.spans[tr.allSpans[i]]]
Count(h, c) == Cardinality({i \in 1..Len(h) : h[i] = c})

\* C1: in every trace, after any startSpan, endSpan and finish calls,
\* allSpans[0] is the root span and every other span of allSpans has a
\* parentId that is the id of a span of allSpans.
C1_RootFirstParentsPresent ==
    \A r \in Refs :
        LET tr == heap[r] IN
        /\ tr.allSpans[1] = tr.rootSpan
        /\ \A i \in 1..Len(tr.allSpans) :
               tr.allSpans[i] # tr.rootSpan =>
                   /\ SpansOf(tr)[i].parentId # Undefined
                   /\ \E j \in 1..Len(tr.allSpans) :
                          SpansOf(tr)[j].id = SpansOf(tr)[i].parentId[1]

\* A finished trace with a span nested in a span, after an endSpan.
C1_Witness ==
    \E r \in Refs :
        /\ heap[r].status # "running"
        /\ Count(hist[r], "e") >= 1
        /\ \E i \in 1..Len(heap[r].spans) :
               /\ heap[r].spans[i].parentId # Undefined
               /\ heap[r].spans[i].parentId[1] # heap[r].spans[heap[r].rootSpan].id

\* n startSpan calls followed by m endSpan calls, m >= n, and nothing else.
NestedThenEnded(h) ==
    \E n \in 0..Len(h) :
        /\ 2 * n <= Len(h)
        /\ \A i \in 1..Len(h) : h[i] = (IF i <= n THEN "s" ELSE "e")

\* C2: on a fresh trace, N nested startSpan calls followed by N endSpan
\* calls, or by more than N, leave the cursor at the root span.
C2_CursorBackAtRoot ==
    \A r \in Refs :
        NestedThenEnded(hist[r]) => heap[r].currentSpan = heap[r].rootSpan

\* Two nested startSpan calls and then three endSpan calls.
C2_Witness ==
    \E r \in Refs : hist[r] = <<"s", "s", "e", "e", "e">>

\* C9: a span whose status is completed or error has an end time, and its
\* duration is that end time minus its start time.
C9_DurationIsEndMinusStart ==
    \A r \in Refs : \A i \in 1..Len(heap[r].spans) :
        LET sp == heap[r].spans[i] IN
        sp.status \in {"completed", "error"} =>
            /\ sp.endTime # Undefined
            /\ sp.duration = Some(sp.endTime[1] - sp.startTime)

\* A span started after time 0 and ended, and a root span ended more than
\* once (more endSpan than startSpan calls) with a duration of a tick.
C9_Witness ==
    \E r \in Refs :
        /\ \E i \in 1..Len(heap[r].spans) :
               /\ heap[r].spans[i].startTime > 0
               /\ heap[r].spans[i].status \in {"completed", "error"}
        /\ Count(hist[r], "e") > Count(hist[r], "s") + 1
        /\ heap[r].spans[heap[r].rootSpan].duration = Some(1)

\* C10: a span's duration is defined exactly when its status is not started.
C10_DurationIffNotStarted ==
    \A r \in Refs : \A i \in 1..Len(heap[r].spans) :
        (heap[r].spans[i].duration # Undefined) <=> (heap[r].spans[i].status # "started")

\* A trace with a started span, a completed span and a span ended in error.
C10_Witness ==
    \E r \in Refs :
        \A st \in {"started", "completed", "error"} :
            \E i \in 1..Len(heap[r].spans) : heap[r].spans[i].status = st

\* The trace ids of what getAll() returns, in its order.
StoredIds == [i \in 1..Len(storage) |-> heap[TraceStorage_getAll(storage)[i]].traceId]

\* C3: after any store calls the store holds at most maxTraces entries and
\* getAll() returns them in the order of their insertion; the entry a store
\* call evicts, out of those present and the one being stored, is the one
\* inserted longest ago.
C3_BoundedOldestEvicted ==
    /\ [](Len(storage) <= maxTraces /\ StoredIds = order)
    /\ [][\A r \in Refs :
             Store(r) =>
                 LET key    == heap[r].traceId
                     oldest == IF order = <<>> THEN key ELSE order[1]
                 IN  \A k \in {storage[i].key : i \in 1..Len(storage)} \cup {key} :
                         ~MapHas(storage', k) => k = oldest]_vars

\* Capacity 2 after store A, store B, store C: getAll() is [B, C].
C3_Witness ==
    /\ maxTraces = 2
    /\ StoredIds = <<2, 3>>

\* C4: for every store content and every threshold, getSlowTraces(threshold)
\* is exactly the stored traces that have a duration greater than threshold.
C4_SlowTracesExact ==
    \A th \in Thresholds :
        TraceStorage_getSlowTraces(storage, th) =
            SelectSeq(TraceStorage_getAll(storage),
                      LAMBDA r : heap[r].duration # Undefined /\ heap[r].duration[1] > th)

\* What a caller can read an Error from in a Trace object: Trace has no error
\* field, so the errors it holds are those of its spans.
ErrorHeld(tr, e) == \E i \in 1..Len(tr.spans) : tr.spans[i].error = Some(e)

\* C5: after finishTrace(traceId, error) with an error on an open trace, the
\* returned trace has status failed and the error can be read from it.
C5_FailedWithError ==
    (outcome.op = "finishTrace" /\ outcome.threw = "none" /\ outcome.args[2] # Undefined) =>
        /\ heap[outcome.value[1]].status = "failed"
        /\ ErrorHeld(heap[outcome.value[1]], outcome.args[2][1])

\* C6: finishTrace with an id that is not open throws "Trace not found" and
\* changes neither the open traces, nor any Trace object, nor the store.
C6_UnknownIdThrows ==
    [][\A id \in TraceIds, e \in OptErrors :
          (~MapHas(activeTraces, id) /\ FinishTrace(id, e)) =>
              /\ outcome'.threw = "Trace not found"
              /\ UNCHANGED <<activeTraces, heap, storage>>]_vars

\* finishTrace has thrown while a trace is open and another is stored.
C6_Witness ==
    /\ outcome.op = "finishTrace"
    /\ outcome.threw = "Trace not found"
    /\ activeTraces # <<>>
    /\ storage # <<>>

\* C7: startTrace returns a trace with status running, startSpan and endSpan
\* calls do not change a trace's status, and finishTrace(traceId) without an
\* error returns the trace startTrace returned, with status completed.
C7_RunningUntilFinished ==
    /\ [][\A name \in Names :
             StartTrace(name) =>
                 /\ outcome'.value = Some(Len(heap'))
                 /\ heap'[Len(heap')].status = "running"]_vars
    /\ [][\A r \in Refs : hist'[r] # hist[r] => heap'[r].status = heap[r].status]_vars
    /\ [](\A r \in OpenRefs : heap[r].status = "running")
    /\ [][\A id \in TraceIds :
             (MapHas(activeTraces, id) /\ FinishTrace(id, Undefined)) =>
                 /\ outcome'.threw = "none"
                 /\ outcome'.value # Undefined
                 /\ heap[outcome'.value[1]].traceId = id
                 /\ heap'[outcome'.value[1]].status = "completed"]_vars

\* finishTrace without an error has returned a trace that took a startSpan
\* and an endSpan call.
C7_Witness ==
    /\ outcome.op = "finishTrace"
    /\ outcome.threw = "none"
    /\ outcome.args[2] = Undefined
    /\ Count(hist[outcome.value[1]], "s") >= 1
    /\ Count(hist[outcome.value[1]], "e") >= 1
    /\ heap[outcome.value[1]].status = "completed"

\* C8: a finishTrace that succeeds removes the trace from the open ones and
\* makes getTrace(traceId) return it; no id is ever both open and stored, and
\* getTrace of an open id finds nothing.
C8_OpenOrStored ==
    /\ [](\A id \in TraceIds :
             MapHas(activeTraces, id) =>
                 ~MapHas(storage, id) /\ Tracer_getTrace(id) = Undefined)
    /\ [][\A id \in TraceIds, e \in OptErrors :
             (MapHas(activeTraces, id) /\ FinishTrace(id, e)) =>
                 /\ ~MapHas(activeTraces', id)
                 /\ TraceStorage_get(storage', id) = MapGet(activeTraces, id)]_vars

\* finishTrace has just returned a trace, getTrace finds it, and another
\* trace is still open.
C8_Witness ==
    /\ outcome.op = "finishTrace"
    /\ outcome.threw = "none"
    /\ Tracer_getTrace(outcome.args[1]) = outcome.value
    /\ activeTraces # <<>>

\* The names of the spans of tr at the given references.
NamesOf(tr, refs) == [i \in 1..Len(refs) |-> tr.spans[refs[i]].name]
\* The span of tr with the given name that was started first.
Named(tr, name) == CHOOSE s \in 1..Len(tr.spans) :
                       /\ tr.spans[s].name = name
                       /\ \A u \in 1..(s - 1) : tr.spans[u].name # name

\* The checkout scenario has run to its end on r with the durations 50ms for
\* "validate", 200ms for "charge" and 150ms for "gateway-call".
CheckoutDone(r) ==
    /\ Position(r) = Len(Checkout)
    /\ heap[r].spans[Named(heap[r], "validate")].duration = Some(50)
    /\ heap[r].spans[Named(heap[r], "charge")].duration = Some(200)
    /\ heap[r].spans[Named(heap[r], "gateway-call")].duration = Some(150)

\* C11: after the checkout scenario (validate 50ms; charge 200ms around
\* gateway-call 150ms; finish) the root span has exactly 2 children, "charge"
\* has exactly 1, getSlowOperations(100) is exactly "charge" and
\* "gateway-call", and the metrics' slowestOperation is "charge".
C11_CheckoutScenario ==
    \A r \in Refs :
        CheckoutDone(r) =>
            LET tr == heap[r] IN
            /\ Len(tr.spans[tr.rootSpan].children) = 2
            /\ Len(tr.spans[Named(tr, "charge")].children) = 1
            /\ NamesOf(tr, Trace_getSlowOperations(tr, 100)) = <<"charge", "gateway-call">>
            /\ MetricsCollector_analyzeTrace(tr).slowestOperation.name = "charge"

\* The scenario has run to its end with those durations.
C11_Witness ==
    \E r \in Refs : CheckoutDone(r) /\ heap[r].status = "completed"

\* Any number of endSpan calls and then startSpan/endSpan pairs: every
\* startSpan of h was issued with the cursor at the root of a fresh trace.
PairsAtRoot(h) ==
    \E j \in 0..Len(h) :
        /\ (Len(h) - j) % 2 = 0
        /\ \A i \in 1..Len(h) :
               h[i] = (IF i <= j \/ (i - j) % 2 = 0 THEN "e" ELSE "s")

\* C12: startSpan(name) makes a new span with that name whose parentId is the
\* id of the span under the cursor, appends it as the last child of that span
\* and as the last element of allSpans, and moves the cursor to it; after k
\* startSpan/endSpan pairs issued at the root, the root has exactly k children
\* and the cursor is at the root.
C12_StartSpanUnderCursor ==
    /\ [][\A r \in Refs, name \in Names :
             CallTraceStartSpan(r, name) =>
                 LET cur == heap[r].currentSpan
                     new == heap'[r].currentSpan
                 IN  /\ new \notin 1..Len(heap[r].spans)
                     /\ heap'[r].spans[new].name = name
                     /\ heap'[r].spans[new].parentId = Some(heap[r].spans[cur].id)
                     /\ heap'[r].spans[cur].children = Append(heap[r].spans[cur].children, new)
                     /\ heap'[r].allSpans = Append(heap[r].allSpans, new)]_vars
    /\ [](\A r \in Refs :
             PairsAtRoot(hist[r]) =>
                 /\ Len(heap[r].spans[heap[r].rootSpan].children) = Count(hist[r], "s")
                 /\ heap[r].currentSpan = heap[r].rootSpan)

\* Two startSpan/endSpan pairs on a fresh trace: the root has two children.
C12_Witness ==
    \E r \in Refs :
        /\ hist[r] = <<"s", "e", "s", "e">>
        /\ Len(heap[r].spans[heap[r].rootSpan].children) = 2

\* The durations of the stored traces.
StoredDurations == {heap[storage[i].value].duration[1] : i \in 1..Len(storage)}
\* The traces finished so far.
Finished == {r \in Refs : heap[r].status # "running"}

\* C13: getStats() of the Tracer gives as totalTraces the number of stored
\* traces, which is the number of traces finished through finishTrace while
\* that number is at most the capacity, and for a store that is not empty
\* slowestTrace is the largest and fastestTrace the smallest of the stored
\* traces' durations.
C13_StatsOfStore ==
    LET stats == Tracer_getStats IN
    /\ stats.totalTraces = Len(storage)
    /\ Cardinality(Finished) <= maxTraces => stats.totalTraces = Cardinality(Finished)
    /\ storage # <<>> =>
           /\ stats.slowestTrace \in StoredDurations
           /\ stats.fastestTrace \in StoredDurations
           /\ \A d \in StoredDurations : stats.fastestTrace <= d /\ d <= stats.slowestTrace

\* Two traces finished and stored, one with duration 1 and one with duration 0.
C13_Witness ==
    /\ Len(storage) = 2
    /\ StoredDurations = {0, 1}
    /\ Tracer_getStats.totalTraces = 2
    /\ Tracer_getStats.slowestTrace = 1

\* C14: store of a trace whose id is already stored replaces the value in
\* place: the number of entries is unchanged, nothing is evicted, and the id
\* keeps its position in the order of getAll() and of later evictions.
C14_RestoreKeepsPlace ==
    [][\A r \in Refs :
          (MapHas(storage, heap[r].traceId) /\ Store(r)) =>
              /\ Len(storage') = Len(storage)
              /\ MapKeys(storage') = MapKeys(storage)
              /\ TraceStorage_get(storage', heap[r].traceId) = Some(r)
              /\ \A i \in 1..Len(storage) :
                     storage[i].key # heap[r].traceId => storage'[i] = storage[i]
              /\ order' = order]_vars

\* Another Trace object with the id stored first has just been stored: it
\* is the first of two entries.
C14_Witness ==
    /\ outcome.op = "store"
    /\ Len(storage) = 2
    /\ storage[1].key = outcome.args[1]
    /\ \E r \in Refs : r < storage[1].value /\ heap[r].traceId = storage[1].key

\* C15: once the status of a trace is completed or failed, no call of the
\* public API, a further finish with or without an error included, changes it.
C15_TerminalStatusStays ==
    [][\A r \in Refs :
          heap[r].status \in {"completed", "failed"} => heap'[r].status = heap[r].status]_vars

C17_InstrumentSettles ==
    /\ [][\A r \in OpenRefs, e \in Errors :
             InstrumentReject(r, e) =>
                 /\ outcome' = Threw("instrumented", <<heap[r].traceId>>, e)
                 /\ heap[r].status = "running" /\ heap'[r].status = "failed"
                 /\ TraceStorage_get(storage', heap[r].traceId) = Some(r)
                 /\ ~MapHas(activeTraces', heap[r].traceId)]_vars
    /\ [][\A r \in OpenRefs, v \in Values :
             InstrumentResolve(r, v) =>
                 /\ outcome' = Returned("instrumented", <<heap[r].traceId>>, Some(v))
                 /\ heap[r].status = "running" /\ heap'[r].status = "completed"
                 /\ TraceStorage_get(storage', heap[r].traceId) = Some(r)
                 /\ ~MapHas(activeTraces', heap[r].traceId)]_vars
    /\ [][\A name \in Names, e \in Errors :
             InstrumentCallThrows(name, e) =>
                 /\ outcome' = Threw("instrumented", <<Len(heap')>>, e)
                 /\ heap'[Len(heap')].status = "failed"
                 /\ TraceStorage_get(storage', Len(heap')) = Some(Len(heap'))
                 /\ ~MapHas(activeTraces', Len(heap'))]_vars
    /\ [](\A r \in Refs : (r \in OpenRefs) <=> (heap[r].status = "running"))
    /\ [][\A r \in Refs : heap'[r].status # heap[r].status => heap[r].status = "running"]_vars

\* An invocation has been rejected with E1 while an invocation made before it
\* is still waiting.
C17_Witness ==
    /\ outcome.op = "instrumented"
    /\ outcome.threw = "E1"
    /\ heap[outcome.args[1]].status = "failed"
    /\ \E r \in OpenRefs : r < outcome.args[1]

\* C18: for every trace and every threshold, getSlowOperations(threshold) is
\* exactly the spans of allSpans, in that order, that have a duration greater
\* than the threshold; a span that is still started is never in the result.
C18_SlowOperationsExact ==
    \A r \in Refs, th \in Thresholds :
        LET tr == heap[r] IN
        /\ Trace_getSlowOperations(tr, th) =
               SelectSeq(tr.allSpans,
                         LAMBDA s : tr.spans[s].duration # Undefined /\ tr.spans[s].duration[1] > th)
        /\ \A i \in 1..Len(Trace_getSlowOperations(tr, th)) :
               tr.spans[Trace_getSlowOperations(tr, th)[i]].status # "started"

\* The duration of the span at position i of allSpans, a missing one being 0.
DurationAt(tr, i) == OrZero(tr.spans[tr.allSpans[i]].duration)

\* C19: analyzeTrace reports as slowestOperation the span of allSpans with
\* the largest duration, the earliest of them in allSpans order, a missing
\* duration counting as 0; operationCount is the length of allSpans;
\* totalDuration is the duration of the trace, or 0 when it has none; the sum
\* behind the mean counts a missing duration as 0.
C19_MetricsOfTrace ==
    \A r \in Refs :
        LET tr    == heap[r]
            m     == MetricsCollector_analyzeTrace(tr)
            n     == Len(tr.allSpans)
            first == CHOOSE i \in 1..n :
                         /\ \A j \in 1..n : DurationAt(tr, j) <= DurationAt(tr, i)
                         /\ \A j \in 1..(i - 1) : DurationAt(tr, j) < DurationAt(tr, i)
        IN  /\ m.slowestSpan = tr.allSpans[first]
            /\ m.slowestOperation = [ name     |-> tr.spans[tr.allSpans[first]].name,
                                      duration |-> DurationAt(tr, first) ]
            /\ m.operationCount = n
            /\ m.totalDuration = (IF tr.duration = Undefined THEN 0 ELSE tr.duration[1])
            /\ m.averageOperationTime = [ num |-> SumOf([i \in 1..n |-> DurationAt(tr, i)]),
                                          den |-> n ]

\* A trace with no duration whose root span has none either and whose two
\* other spans both took one tick: the slowest operation is the first of the two.
C19_Witness ==
    \E r \in Refs :
        /\ heap[r].duration = Undefined
        /\ Len(heap[r].allSpans) = 3
        /\ heap[r].spans[heap[r].rootSpan].duration = Undefined
        /\ DurationAt(heap[r], 2) = 1
        /\ DurationAt(heap[r], 3) = 1
        /\ MetricsCollector_analyzeTrace(heap[r]).slowestSpan = heap[r].allSpans[2]

\* The parent links from span s of tr up to the span that has no parent.
RECURSIVE Depth(_, _)
Depth(tr, s) ==
    IF tr.spans[s].parentId = Undefined THEN 0
    ELSE 1 + Depth(tr, FindSpan(tr, tr.spans[s].parentId[1])[1])

\* The startSpan calls of h not yet paired with a later endSpan, open being
\* their number before h; an endSpan with none to pair with pairs with nothing.
RECURSIVE Unmatched(_, _)
Unmatched(h, open) ==
    IF h = <<>> THEN open
    ELSE Unmatched(Tail(h), IF Head(h) = "s" THEN open + 1
                            ELSE IF open > 0 THEN open - 1 ELSE 0)

\* C20: after any startSpan and endSpan calls on a trace, the number of parent
\* links from the cursor up to the root span equals the number of startSpan
\* calls not yet paired with a later endSpan.
C20_DepthIsUnmatched ==
    \A r \in Refs :
        /\ Depth(heap[r], heap[r].currentSpan) = Unmatched(hist[r], 0)
        /\ Depth(heap[r], heap[r].rootSpan) = 0

\* endSpan at the root, then two nested startSpan calls and one endSpan: the
\* cursor is one link below the root.
C20_Witness ==
    \E r \in Refs :
        /\ hist[r] = <<"e", "s", "s", "e">>
        /\ Depth(heap[r], heap[r].currentSpan) = 1

\* A span as a call of end(error) at time t leaves it, whatever it was before.
EndedBy(before, after, error, t) ==
    /\ after.endTime = Some(t)
    /\ after.duration = Some(t - before.startTime)
    /\ after.status = (IF error = Undefined THEN "completed" ELSE "error")
    /\ after.error = error

\* C21: a call of end on a span that has already ended, made on the span or
\* through endSpan while the cursor is on the ended root span, replaces its
\* endTime, duration, status and error by those of this call: without an
\* error the status becomes completed and an earlier error is gone.  endSpan
\* on the root span leaves the cursor there.
C21_SecondEndOverwrites ==
    /\ [][\A r \in Refs, e \in OptErrors : \A s \in 1..Len(heap[r].spans) :
             (heap[r].spans[s].status # "started" /\ CallSpanEnd(r, s, e)) =>
                 EndedBy(heap[r].spans[s], heap'[r].spans[s], e, now)]_vars
    /\ [][\A r \in Refs, e \in OptErrors :
             ( /\ heap[r].currentSpan = heap[r].rootSpan
               /\ heap[r].spans[heap[r].rootSpan].status # "started"
               /\ CallTraceEndSpan(r, e) ) =>
                 /\ EndedBy(heap[r].spans[heap[r].rootSpan],
                            heap'[r].spans[heap[r].rootSpan], e, now)
                 /\ heap'[r].currentSpan = heap[r].rootSpan]_vars

\* Two endSpan calls on a fresh trace, the second a tick after the start and
\* without an error: the root span is completed with a duration of one tick.
C21_Witness ==
    \E r \in Refs :
        /\ hist[r] = <<"e", "e">>
        /\ heap[r].spans[heap[r].rootSpan].status = "completed"
        /\ heap[r].spans[heap[r].rootSpan].error = Undefined
        /\ heap[r].spans[heap[r].rootSpan].duration = Some(1)

\* The spans of the tree below s, s first and then the subtrees of its
\* children in the order of its children list.
RECURSIVE PreOrder(_, _), PreOrderEach(_, _, _)
PreOrder(tr, s) == <<s>> \o PreOrderEach(tr, tr.spans[s].children, 1)
PreOrderEach(tr, children, i) ==
    IF i > Len(children) THEN <<>>
    ELSE PreOrder(tr, children[i]) \o PreOrderEach(tr, children, i + 1)

\* How many times span c stands in the children lists of tr.
TimesChild(tr, c) ==
    Cardinality({p \in (1..Len(tr.spans)) \X (1..Len(tr.spans)) :
                    /\ p[2] <= Len(tr.spans[p[1]].children)
                    /\ tr.spans[p[1]].children[p[2]] = c})

\* C22: after any startSpan and endSpan calls, allSpans is the depth-first
\* pre-order of the tree of children lists below rootSpan: every span of
\* allSpans is reached from the root, no span stands in two children lists or
\* twice in one, and the lines of visualize() are those of the spans of
\* allSpans, in allSpans order.
C22_AllSpansIsPreOrder ==
    \A r \in Refs :
        LET tr == heap[r] IN
        /\ PreOrder(tr, tr.rootSpan) = tr.allSpans
        /\ \A s \in 1..Len(tr.spans) :
               TimesChild(tr, s) = (IF s = tr.rootSpan THEN 0 ELSE 1)
        /\ Trace_visualize(tr) =
               [i \in 1..Len(tr.allSpans) |->
                   [ level    |-> Depth(tr, tr.allSpans[i]),
                     name     |-> tr.spans[tr.allSpans[i]].name,
                     duration |-> tr.spans[tr.allSpans[i]].duration ]]

\* A root span with two children, the first ended and the second started.
C22_Witness ==
    \E r \in Refs :
        /\ hist[r] = <<"s", "e", "s">>
        /\ Len(heap[r].spans[heap[r].rootSpan].children) = 2
        /\ Len(Trace_visualize(heap[r])) = 3

\* No endSpan of h was called with the cursor at the root: before each
\* endSpan there were more startSpan than endSpan calls.
NeverEndedAtRoot(h) ==
    \A k \in 1..Len(h) :
        h[k] = "e" => Count(SubSeq(h, 1, k), "e") <= Count(SubSeq(h, 1, k), "s")

\* The spans from s up to the span that has no parent, s included.
RECURSIVE PathToRoot(_, _)
PathToRoot(tr, s) ==
    IF tr.spans[s].parentId = Undefined THEN {s}
    ELSE {s} \cup PathToRoot(tr, FindSpan(tr, tr.spans[s].parentId[1])[1])

\* C23: after startSpan and endSpan calls of which no endSpan was made with
\* the cursor at the root, the spans from the root to the cursor are started
\* and all others are completed or error; so no span has ended while a span
\* below it is still started.
C23_WellNested ==
    \A r \in Refs :
        NeverEndedAtRoot(hist[r]) =>
            LET tr == heap[r] IN
            /\ \A s \in 1..Len(tr.spans) :
                   IF s \in PathToRoot(tr, tr.currentSpan)
                   THEN tr.spans[s].status = "started"
                   ELSE tr.spans[s].status \in {"completed", "error"}
            /\ \A s \in 1..Len(tr.spans), d \in 1..Len(tr.spans) :
                   (s \in PathToRoot(tr, d) /\ tr.spans[d].status = "started") =>
                       tr.spans[s].status = "started"

\* A span started in a span, and ended: the cursor is on the outer span,
\* which is started like the root span, and the inner span has ended.
C23_Witness ==
    \E r \in Refs :
        /\ hist[r] = <<"s", "s", "e">>
        /\ heap[r].currentSpan # heap[r].rootSpan
        /\ heap[r].spans[heap[r].currentSpan].status = "started"
        /\ \E s \in 1..Len(heap[r].spans) : heap[r].spans[s].status # "started"

\* Trace `after` is trace `before` but for endTime, duration and status.
OnlyFinished(before, after) ==
    after = [before EXCEPT !.endTime = after.endTime,
                           !.duration = after.duration,
                           !.status = after.status]

\* C24: Trace.finish, and so Tracer.finishTrace, changes of the trace only
\* endTime, duration and status: allSpans, the cursor and every span are as
\* before, and no other trace changes; a span that was started when the trace
\* was finished, the root span included, is started and has no duration in
\* the stored trace.
C24_FinishTouchesTraceOnly ==
    /\ [](\A r \in Refs, e \in OptErrors : OnlyFinished(heap[r], Trace_finish(heap[r], e, now)))
    /\ [][\A id \in TraceIds, e \in OptErrors :
             (MapHas(activeTraces, id) /\ FinishTrace(id, e)) =>
                 LET r == MapGet(activeTraces, id)[1] IN
                 /\ TraceStorage_get(storage', id) = Some(r)
                 /\ OnlyFinished(heap[r], heap'[r])
                 /\ heap'[r].endTime = Some(now)
                 /\ \A q \in Refs \ {r} : heap'[q] = heap[q]
                 /\ \A s \in 1..Len(heap[r].spans) :
                        heap[r].spans[s].status = "started" =>
                            /\ heap'[r].spans[s].status = "started"
                            /\ heap'[r].spans[s].duration = Undefined]_vars

\* finishTrace has returned a trace that is stored and whose root span and
\* one more span are started and have no duration.
C24_Witness ==
    /\ outcome.op = "finishTrace"
    /\ outcome.threw = "none"
    /\ Tracer_getTrace(outcome.args[1]) = outcome.value
    /\ LET tr == heap[outcome.value[1]] IN
       /\ tr.status # "running"
       /\ tr.currentSpan # tr.rootSpan
       /\ \A s \in {tr.rootSpan, tr.currentSpan} :
              tr.spans[s].status = "started" /\ tr.spans[s].duration = Undefined

\* The open trace that startTrace made first: Trace objects are in `heap` in
\* the order of their construction.
EarliestOpen == CHOOSE r \in OpenRefs : \A q \in OpenRefs : r <= q

\* C25: Tracer.endSpan() acts on the trace opened first among those still
\* open, and Tracer.startSpan(name) without a traceId on that same trace;
\* startSpan with the id of an open trace acts on that trace; no other trace
\* changes.  So with A and B open, A opened first, startSpan(x, B.traceId)
\* and then endSpan() ends the span under A's cursor and leaves B's cursor on
\* x, still started.
C25_ImplicitTraceIsEarliest ==
    /\ [][\A e \in OptErrors :
             (activeTraces # <<>> /\ EndSpan(e)) =>
                 LET a == EarliestOpen IN
                 /\ heap'[a].spans[heap[a].currentSpan].status # "started"
                 /\ heap'[a].spans[heap[a].currentSpan].endTime = Some(now)
                 /\ hist'[a] = Append(hist[a], "e")
                 /\ \A q \in Refs \ {a} : heap'[q] = heap[q] /\ hist'[q] = hist[q]]_vars
    /\ [][\A name \in Names :
             (activeTraces # <<>> /\ StartSpan(name, Undefined)) =>
                 LET a == EarliestOpen IN
                 /\ Len(heap'[a].allSpans) = Len(heap[a].allSpans) + 1
                 /\ hist'[a] = Append(hist[a], "s")
                 /\ \A q \in Refs \ {a} : heap'[q] = heap[q] /\ hist'[q] = hist[q]]_vars
    /\ [][\A name \in Names, id \in TraceIds :
             (MapHas(activeTraces, id) /\ StartSpan(name, Some(id))) =>
                 LET b == MapGet(activeTraces, id)[1] IN
                 /\ heap[b].traceId = id
                 /\ Len(heap'[b].allSpans) = Len(heap[b].allSpans) + 1
                 /\ heap'[b].spans[heap'[b].currentSpan].status = "started"
                 /\ hist'[b] = Append(hist[b], "s")
                 /\ \A q \in Refs \ {b} : heap'[q] = heap[q] /\ hist'[q] = hist[q]]_vars

\* Two traces open, the second with its cursor on a span it started, and
\* endSpan() has returned: it ended the root span of the first.
C25_Witness ==
    /\ outcome.op = "endSpan"
    /\ outcome.threw = "none"
    /\ Len(activeTraces) = 2
    /\ hist = << <<"e">>, <<"s">> >>
    /\ heap[1].spans[heap[1].rootSpan].status # "started"
    /\ heap[2].currentSpan # heap[2].rootSpan
    /\ heap[2].spans[heap[2].currentSpan].status = "started"

\* C26: through the Tracer a trace is finished at most once: finishTrace with
\* the id of a trace already finished throws "Trace not found" and leaves
\* every trace (status, endTime and duration of the stored one included) and
\* the store, contents and order, as they were; the status of a trace only
\* ever changes from running.
C26_FinishedOnce ==
    /\ [][\A r \in Refs, e \in OptErrors :
             (heap[r].status # "running" /\ FinishTrace(heap[r].traceId, e)) =>
                 /\ outcome' = Threw("finishTrace", <<heap[r].traceId, e>>, "Trace not found")
                 /\ heap' = heap
                 /\ storage' = storage
                 /\ TraceStorage_getAll(storage') = TraceStorage_getAll(storage)
                 /\ UNCHANGED <<activeTraces, order>>]_vars
    /\ [][\A r \in Refs :
             heap'[r] # heap[r] => heap[r].status = "running" /\ heap[r].endTime = Undefined]_vars

\* finishTrace with an error has thrown a tick after the trace of that id
\* was finished without one: the trace is stored and completed, with the end
\* time of its first finish.
C26_Witness ==
    /\ outcome.op = "finishTrace"
    /\ outcome.threw = "Trace not found"
    /\ outcome.args[2] # Undefined
    /\ now = 1
    /\ \E r \in Refs :
           /\ heap[r].traceId = outcome.args[1]
           /\ Tracer_getTrace(outcome.args[1]) = Some(r)
           /\ heap[r].status = "completed"
           /\ heap[r].endTime = Some(0)

====
